---- MODULE Spec2Model ----
(***************************************************************************)
(* Model of build_transportation_olca_objects.py: the batch pipeline that  *)
(* turns the weighted commodity/transport-mode table into per-process      *)
(* exchange sets, a parameter table and the emitted object graph.          *)
(*                                                                         *)
(* Text values are sequences of tokens.  A token is an indivisible piece   *)
(* of text: a word in one fixed casing, one space " ", the ampersand "&",  *)
(* or the escape tail "amp;".  No word token contains a space, "&" or      *)
(* spells a prefix of "amp;", so a substring match of Python's str         *)
(* methods on the text is a sub-sequence match on the tokens.              *)
(* The float NaN of pandas is the one-token value NaN; the empty string    *)
(* is <<>>; the Python string 'nan' is <<"nan">>.                          *)
(***************************************************************************)
EXTENDS Integers, Sequences, FiniteSets, TLC

\* ------------------------------------------------------------------ bounds
MaxRows == 2
MaxLabelLen == 6

\* ------------------------------------------------------------- text values
NaN == <<"<NaN>">>
NoValue == -1
SP == " "

\* str.lower() on one token: the upper-case spellings used by the inputs
UpperToLower ==
  [t \in {"Rail", "Great", "Lakes", "Truck", "Coal", "Machinery", "Widgets",
          "AMP;", "X"} |->
     CASE t = "Rail" -> "rail"
       [] t = "Great" -> "great"
       [] t = "Lakes" -> "lakes"
       [] t = "Truck" -> "truck"
       [] t = "Coal" -> "coal"
       [] t = "Machinery" -> "machinery"
       [] t = "Widgets" -> "widgets"
       [] t = "AMP;" -> "amp;"
       [] t = "X" -> "x"]

LowerTok(t) == IF t \in DOMAIN UpperToLower THEN UpperToLower[t] ELSE t

\* str.lower()
Lower(s) == [i \in 1..Len(s) |-> LowerTok(s[i])]

RECURSIVE LStrip(_)
LStrip(s) == IF s # <<>> /\ Head(s) = SP THEN LStrip(Tail(s)) ELSE s

RECURSIVE RStrip(_)
RStrip(s) ==
  IF s # <<>> /\ s[Len(s)] = SP THEN RStrip(SubSeq(s, 1, Len(s) - 1)) ELSE s

\* str.strip()
Strip(s) == RStrip(LStrip(s))

StartsWith(s, p) == Len(s) >= Len(p) /\ SubSeq(s, 1, Len(p)) = p

\* old in s
Contains(s, old) ==
  \E i \in 1..Len(s) : StartsWith(SubSeq(s, i, Len(s)), old)

\* str.replace(old, new): every leftmost, non-overlapping occurrence, one pass
RECURSIVE Replace(_, _, _)
Replace(s, old, new) ==
  IF s = <<>> THEN <<>>
  ELSE IF StartsWith(s, old)
       THEN new \o Replace(SubSeq(s, Len(old) + 1, Len(s)), old, new)
       ELSE <<Head(s)>> \o Replace(Tail(s), old, new)

Amp4 == <<"&", "amp;", "amp;", "amp;", "amp;">>
Amp3 == <<"&", "amp;", "amp;", "amp;">>
Amp2 == <<"&", "amp;", "amp;">>

\* while "  " in s: s = s.replace("  ", " ")
RECURSIVE CollapseSpaces(_)
CollapseSpaces(s) ==
  IF Contains(s, <<SP, SP>>)
  THEN CollapseSpaces(Replace(s, <<SP, SP>>, <<SP>>))
  ELSE s

\* build_df_params._normalize_mode
_normalize_mode(s) == CollapseSpaces(Lower(Strip(Replace(s, Amp4, Amp3))))

\* assign_amount_formula._norm_mode
_norm_mode(s) ==
  Replace(Replace(Lower(Strip(s)), Amp3, Amp2), <<SP, SP>>, <<SP>>)

\* ------------------------------------------------------------ fixed tables
Range(f) == {f[x] : x \in DOMAIN f}

\* SCTG_codes: code -> commodity label, as (code, label) pairs
SCTG_table ==
  <<
     <<"01", <<"Animals and Fish (live)">>>>,
     <<"02", <<"Cereal Grains (includes seed)">>>>,
     <<"03", <<"Agricultural Products (excludes Animal Feed, Cereal Grains, and Forage Products)">>>>,
     <<"04", <<"Animal Feed, Eggs, Honey, and Other Products of Animal Origin">>>>,
     <<"05", <<"Meat, Poultry, Fish, Seafood, and Their Preparations">>>>,
     <<"06", <<"Milled Grain Products and Preparations, and Bakery Products">>>>,
     <<"07", <<"Other Prepared Foodstuffs, and Fats and Oils">>>>,
     <<"08", <<"Alcoholic Beverages and Denatured Alcohol">>>>,
     <<"09", <<"Tobacco Products">>>>,
     <<"10", <<"Monumental or Building Stone">>>>,
     <<"11", <<"Natural Sands">>>>,
     <<"12", <<"Gravel and Crushed Stone (excludes Dolomite and Slate)">>>>,
     <<"13", <<"Other Non-Metallic Minerals not elsewhere classified">>>>,
     <<"14", <<"Metallic Ores and Concentrates">>>>,
     <<"15", <<"Coal">>>>,
     <<"16", <<"Crude Petroleum">>>>,
     <<"17", <<"Gasoline, Aviation Turbine Fuel, and Ethanol (includes Kerosene, and Fuel Alcohols)">>>>,
     <<"18", <<"Fuel Oils (includes Diesel, Bunker C, and Biodiesel)">>>>,
     <<"19", <<"Other Coal and Petroleum Products, not elsewhere classified">>>>,
     <<"20", <<"Basic Chemicals">>>>,
     <<"21", <<"Pharmaceutical Products">>>>,
     <<"22", <<"Fertilizers">>>>,
     <<"23", <<"Other Chemical Products and Preparations">>>>,
     <<"24", <<"Plastics and Rubber">>>>,
     <<"25", <<"Logs and Other Wood in the Rough">>>>,
     <<"26", <<"Wood Products">>>>,
     <<"27", <<"Pulp, Newsprint, Paper, and Paperboard">>>>,
     <<"28", <<"Paper or Paperboard Articles">>>>,
     <<"29", <<"Printed Products">>>>,
     <<"30", <<"Textiles, Leather, and Articles of Textiles or Leather">>>>,
     <<"31", <<"Non-Metallic Mineral Products">>>>,
     <<"32", <<"Base Metal in Primary or Semi-Finished Forms and in Finished Basic Shapes">>>>,
     <<"33", <<"Articles of Base Metal">>>>,
     <<"34", <<"Machinery">>>>,
     <<"35", <<"Electronic and Other Electrical Equipment and Components, and Office Equipment">>>>,
     <<"36", <<"Motorized and Other Vehicles (includes parts)">>>>,
     <<"37", <<"Transportation Equipment, not elsewhere classified">>>>,
     <<"38", <<"Precision Instruments and Apparatus">>>>,
     <<"39", <<"Furniture, Mattresses and Mattress Supports, Lamps, Lighting Fittings, and Illuminated Signs">>>>,
     <<"40", <<"Miscellaneous Manufactured Products">>>>,
     <<"41", <<"Waste and Scrap (excludes of agriculture or food, see 041xx)">>>>,
     <<"43", <<"Mixed Freight">>>>
  >>

SCTG_codes == [c \in {p[1] : p \in Range(SCTG_table)} |->
                 (CHOOSE p \in Range(SCTG_table) : p[1] = c)[2]]

\* reversed_SCTG_codes = {v: k for k, v in SCTG_codes.items()}
reversed_SCTG_codes ==
  [l \in Range(SCTG_codes) |->
     <<CHOOSE c \in DOMAIN SCTG_codes : SCTG_codes[c] = l>>]

\* param_map: raw mode label -> mode key
param_map ==
  (<<"company-owned", SP, "truck">> :> <<"lightTruck">>) @@
  (<<"for-hire", SP, "truck">> :> <<"longHaul">>) @@
  (<<"rail">> :> <<"rail">>) @@
  (<<"great", SP, "lakes">> :> <<"greatLakes">>) @@
  (<<"inland", SP, "water">> :> <<"inlandWater">>) @@
  (<<"air(incl.", SP, "truck", SP, "&", SP, "air)">> :> <<"air">>) @@
  (<<"deep", SP, "sea">> :> <<"deepSea">>) @@
  (<<"pipeline">> :> <<"pipeline">>)

\* line 165: {_normalize_mode(k): v for k, v in param_map.items()}
norm_param_map(pm) ==
  [nk \in {_normalize_mode(k) : k \in DOMAIN pm} |->
     pm[CHOOSE k \in DOMAIN pm : _normalize_mode(k) = nk]]

\* line 219: {_norm_mode(k): v for k, v in param_map.items()}
mode_to_token(pm) ==
  [nk \in {_norm_mode(k) : k \in DOMAIN pm} |->
     pm[CHOOSE k \in DOMAIN pm : _norm_mode(k) = nk]]

\* ------------------------------------------------------------------ inputs
\* Commodity labels of the input table: two labels of the taxonomy, one of
\* them also with a leading space, and one label the taxonomy does not hold.
Commodities == {<<"Coal">>, <<"Machinery">>, <<SP, "Coal">>, <<"Widgets">>}

\* Raw mode labels of the input table: a key of param_map as it is, with
\* capitals, with three spaces between its words, and a label of no key.
ModeLabels ==
  {<<"rail">>, <<"Rail">>, <<"Great", SP, "Lakes">>,
   <<"Great", SP, SP, SP, "Lakes">>, <<"truck">>}

\* The measurements of csv row i: average distance (km), mass fraction (in
\* tenths) and their product, the weighted distance (km).  They differ from
\* row to row, so that a value taken from the wrong row shows.
Measurement(i) ==
  [AvgDist |-> 100 * i, MassFrac |-> i, WeightedDist |-> 10 * i * i]

CsvRowsAt(i) ==
  {[Commodity |-> c, TransportMode |-> t, AvgDist |-> Measurement(i).AvgDist,
    MassFrac |-> Measurement(i).MassFrac,
    WeightedDist |-> Measurement(i).WeightedDist] :
     c \in Commodities, t \in ModeLabels}

RECURSIVE TablesOfLen(_)
TablesOfLen(n) ==
  IF n = 0 THEN {<<>>}
  ELSE {Append(s, r) : s \in TablesOfLen(n - 1), r \in CsvRowsAt(n)}

CsvTables(maxRows) == UNION {TablesOfLen(n) : n \in 1..maxRows}

\* ------------------------------------------------------------------- state
VARIABLES
  pc,            \* the statement of the script about to run
  csv,           \* Weighted_Commodity_Transport_Distances.csv
  df_olca,       \* the working exchange table, a sequence of rows
  log,           \* codes printed as 'Missing SCTG code'
  df_params,     \* the parameter table
  written,       \* output artifacts written so far
  error,         \* the exception that ended the run
  refFlow_df,    \* the reference-flow template row
  process_meta,  \* the process-metadata template
  validated,     \* validate_exchange_data has returned
  pending,       \* process identifiers the loop has still to visit
  processes      \* what the loop handed to build_process_dict, in order

VARIABLES raw, once, twice, npc   \* the Mode Normalizer run on its own

nvars == <<raw, once, twice, npc>>

pvars == <<pc, csv, df_olca, log, df_params, written, error, refFlow_df,
           process_meta, validated, pending, processes>>

NoError == [kind |-> "none"]

\* ------------------------------------------------------- data-frame helpers
\* Series.map(dict): a missing key gives NaN
MapGet(d, k) == IF k \in DOMAIN d THEN d[k] ELSE NaN

\* Series.unique(): distinct values in order of first appearance
RECURSIVE Unique(_)
Unique(s) ==
  IF s = <<>> THEN <<>>
  ELSE LET u == Unique(SubSeq(s, 1, Len(s) - 1))
           x == s[Len(s)]
       IN IF \E i \in 1..Len(u) : u[i] = x THEN u ELSE Append(u, x)

\* --------------------------------------------------- lines 36-66: df_olca setup
schema ==
  <<"ProcessID", "ProcessCategory", "ProcessName", "FlowUUID", "FlowName",
    "amountFormula", "Context", "IsInput", "FlowType", "reference",
    "default_provider", "default_provider_name", "amount", "unit",
    "avoided_product", "exchange_dqi", "location">>

\* One row of df_olca after the setup: the three measurement columns are
\* dropped, every schema column is '', amount is the weighted distance.
\* src_row records which csv row the row came from (history only).
SetupRow(i, r) ==
  [c \in {"Commodity", "Transport Mode", "src_row"} \cup Range(schema) |->
     CASE c = "Commodity" -> r.Commodity
       [] c = "Transport Mode" -> r.TransportMode
       [] c = "src_row" -> i
       [] c = "amount" -> r.WeightedDist
       [] OTHER -> <<>>]

LoadCsv ==
  /\ pc = "read_csv"
  /\ df_olca' = [i \in 1..Len(csv) |-> SetupRow(i, csv[i])]
  /\ pc' = "sctg"
  /\ UNCHANGED <<nvars, csv, log, df_params, written, error, refFlow_df,
                 process_meta, validated, pending, processes>>

\* ----------------------------------------------- lines 116-128: SCTG mapping
\* df_olca['SCTG'] = df_olca['Commodity'].map(reversed_SCTG_codes)
AddSCTG(df) ==
  [i \in 1..Len(df) |->
     ("SCTG" :> MapGet(reversed_SCTG_codes, df[i]["Commodity"])) @@ df[i]]

\* set(SCTG_codes.keys()) - set(df_olca['SCTG'])
missing_keys(df) ==
  {k \in DOMAIN SCTG_codes : \A i \in 1..Len(df) : df[i]["SCTG"] # <<k>>}

SctgMapping ==
  /\ pc = "sctg"
  /\ df_olca' = AddSCTG(df_olca)
  /\ log' = missing_keys(df_olca')
  /\ pc' = "build_df_params"
  /\ UNCHANGED <<nvars, csv, df_params, written, error, refFlow_df, process_meta,
                 validated, pending, processes>>

\* --------------------------------------- lines 145-197: build_df_params
_process_name(commodity) ==
  <<"Transport; average mix; ">> \o Lower(Strip(commodity))

_make_param_names(mode_key) ==
  <<mode_key \o <<"_dist">>, mode_key \o <<"_mass_frac">>,
    mode_key \o <<"_kgkm">>>>

ParamRow(pname, formula, isInput, name, value, description) ==
  [processName |-> pname, formula |-> formula, isInputParameter |-> isInput,
   name |-> name, value |-> value, description |-> description]

\* The three rows appended for one csv row whose mode is mapped
ParamTriple(row, npm) ==
  LET mode_key == npm[_normalize_mode(row.TransportMode)]
      pname == _process_name(row.Commodity)
      names == _make_param_names(mode_key)
      formula_kgkm == names[1] \o <<"*">> \o names[2]
  IN << ParamRow(pname, <<>>, "TRUE", names[1], row.AvgDist, "km"),
        ParamRow(pname, <<>>, "TRUE", names[2], row.MassFrac,
                 "fraction of all commodity shipped by current mode"),
        ParamRow(pname, formula_kgkm, "FALSE", names[3], NoValue,
                 "kg*km; average mass distance per shipment") >>

RECURSIVE ParamRows(_, _)
ParamRows(df, npm) ==
  IF df = <<>> THEN <<>>
  ELSE ParamRows(SubSeq(df, 1, Len(df) - 1), npm)
         \o ParamTriple(df[Len(df)], npm)

\* build_df_params with rows of an unmapped mode skipped instead of raising
build_df_params_skip(df_commData, pm) ==
  LET npm == norm_param_map(pm)
      mapped == SelectSeq(df_commData,
                          LAMBDA r : _normalize_mode(r.TransportMode)
                                       \in DOMAIN npm)
  IN [ok |-> TRUE, table |-> ParamRows(mapped, npm)]

\* Either the table, or the KeyError of the first row whose normalized mode
\* is no key of the normalized map (idx is the 0-based row label).
build_df_params(df_commData, pm) ==
  LET npm == norm_param_map(pm)
      bad == {i \in 1..Len(df_commData) :
                _normalize_mode(df_commData[i].TransportMode)
                  \notin DOMAIN npm}
  IN IF bad # {}
     THEN LET i == CHOOSE j \in bad : \A k \in bad : j <= k
          IN [ok |-> FALSE,
              error |-> [kind |-> "KeyError",
                         mode |-> df_commData[i].TransportMode,
                         row |-> i - 1]]
     ELSE [ok |-> TRUE, table |-> ParamRows(df_commData, npm)]

\* line 200
BuildParams ==
  /\ pc = "build_df_params"
  /\ LET r == build_df_params(csv, param_map)
     IN IF r.ok
        THEN /\ df_params' = r.table
             /\ pc' = "to_csv"
             /\ error' = error
        ELSE /\ error' = r.error
             /\ pc' = "aborted"
             /\ df_params' = df_params
  /\ UNCHANGED <<nvars, csv, df_olca, log, written, refFlow_df, process_meta,
                 validated, pending, processes>>

\* line 201: df_params.to_csv(...)
WriteParams ==
  /\ pc = "to_csv"
  /\ written' = written \cup {"uslci_transport_params.csv"}
  /\ pc' = "static"
  /\ UNCHANGED <<nvars, csv, df_olca, log, df_params, error, refFlow_df,
                 process_meta, validated, pending, processes>>


\* ------------------------------------------ lines 238-242: static values
prefix == <<"Transport; average mix; ">>

\* esupy.util.make_uuid: a deterministic identifier of the content; distinct
\* names are taken to give distinct identifiers
make_uuid(name) == <<"uuid:">> \o name

StaticRow(r) ==
  LET name == prefix \o Lower(r["Commodity"])
  IN ("IsInput" :> TRUE) @@ ("reference" :> FALSE) @@
     ("unit" :> <<"kg*km">>) @@ ("ProcessName" :> name) @@
     ("ProcessID" :> make_uuid(name)) @@ r

AssignStatic ==
  /\ pc = "static"
  /\ df_olca' = [i \in 1..Len(df_olca) |-> StaticRow(df_olca[i])]
  /\ pc' = "flow_mapping"
  /\ UNCHANGED <<nvars, csv, log, df_params, written, error, refFlow_df,
                 process_meta, validated, pending, processes>>

\* ------------------------------------- lines 245-262: flow/provider mapping
\* What prepare_tech_flow_mappings returns for transport_mapping.csv: the
\* flow record of each mode label the file lists, and the providers it names.
TechFlow(label) ==
  [name |-> <<"flow:">> \o label, id |-> <<"flow-uuid:">> \o label,
   provider |-> <<"provider:">> \o label]

\* The mapping file lists every label of the input table, or only the keys
\* of param_map as they are spelled there.
FlowDicts ==
  {[l \in ModeLabels |-> TechFlow(l)],
   [l \in {<<"rail">>, <<"great", SP, "lakes">>} |-> TechFlow(l)]}

ProviderDict(flow_dict) ==
  [p \in {flow_dict[k].provider : k \in DOMAIN flow_dict} |->
     <<"provider-uuid:">> \o p]

MapFlowRow(r, flow_dict, provider_dict) ==
  LET mode == r["Transport Mode"]
      pname == MapGet([k \in DOMAIN flow_dict |-> flow_dict[k].provider], mode)
  IN ("FlowName" :> MapGet([k \in DOMAIN flow_dict |-> flow_dict[k].name], mode)) @@
     ("FlowUUID" :> MapGet([k \in DOMAIN flow_dict |-> flow_dict[k].id], mode)) @@
     ("default_provider_name" :> pname) @@
     ("default_provider" :> MapGet(provider_dict, pname)) @@ r

MapFlows ==
  /\ pc = "flow_mapping"
  /\ \E flow_dict \in FlowDicts :
       df_olca' = [i \in 1..Len(df_olca) |->
                     MapFlowRow(df_olca[i], flow_dict, ProviderDict(flow_dict))]
  /\ pc' = "amount_formula"
  /\ UNCHANGED <<nvars, csv, log, df_params, written, error, refFlow_df,
                 process_meta, validated, pending, processes>>

\* ---------------------------------- lines 208-235: assign_amount_formula
EndsWithKgkm(name) == name # <<>> /\ name[Len(name)] = "_kgkm"

\* str.replace(r"_kgkm$", "", regex=True)
StripKgkm(name) ==
  IF EndsWithKgkm(name) THEN SubSeq(name, 1, Len(name) - 1) ELSE name

\* dfp.set_index(["processName", "mode_token"])["name"].to_dict()
Lookup(df_param) ==
  LET dfp == SelectSeq(df_param, LAMBDA p : EndsWithKgkm(p.name))
      keys == {<<dfp[i].processName, StripKgkm(dfp[i].name)>> : i \in 1..Len(dfp)}
  IN [k \in keys |->
        LET hits == {i \in 1..Len(dfp) :
                       <<dfp[i].processName, StripKgkm(dfp[i].name)>> = k}
        IN dfp[CHOOSE i \in hits : \A j \in hits : j <= i].name]

FormulaFor(r, df_param, pm) ==
  LET _mode_norm == _norm_mode(r["Transport Mode"])
      _mode_token == MapGet(mode_to_token(pm), _mode_norm)
  IN MapGet(Lookup(df_param), <<r["ProcessName"], _mode_token>>)

\* assign_amount_formula with the rows that miss the lookup dropped
assign_amount_formula_dropmiss(df, df_param, pm) ==
  SelectSeq([i \in 1..Len(df) |->
               ("amountFormula" :> FormulaFor(df[i], df_param, pm)) @@ df[i]],
            LAMBDA r : r["amountFormula"] # NaN)

assign_amount_formula(df, df_param, pm) ==
  [i \in 1..Len(df) |->
     ("amountFormula" :> FormulaFor(df[i], df_param, pm)) @@ df[i]]

\* line 265
AssignFormula ==
  /\ pc = "amount_formula"
  /\ df_olca' = assign_amount_formula(df_olca, df_params, param_map)
  /\ pc' = "ref_flow"
  /\ UNCHANGED <<nvars, csv, log, df_params, written, error, refFlow_df,
                 process_meta, validated, pending, processes>>

\* ------------------------------------- lines 270-302: reference-flow template
YEAR == 2017
refFlowName == <<"Commodity transport; at consumer">>
Category == <<"meta.Category">>

ref_flow ==
  [SCTG |-> <<"nan">>,
   Commodity |-> <<"nan">>,
   ProcessID |-> <<"nan">>,
   ProcessCategory |-> Category,
   ProcessName |-> <<"nan">>,
   FlowUUID |-> make_uuid(refFlowName \o <<"uslci-transport">>),
   FlowName |-> refFlowName,
   amountFormula |-> <<"nan">>,
   Context |-> <<"Technosphere flows / ">> \o Category,
   IsInput |-> FALSE,
   FlowType |-> <<"PRODUCT_FLOW">>,
   reference |-> TRUE,
   default_provider |-> <<>>,
   default_provider_name |-> <<>>,
   amount |-> 1,
   unit |-> <<"kg">>,
   avoided_product |-> FALSE,
   exchange_dqi |-> <<"nan">>,
   location |-> <<"US">>,
   Year |-> YEAR,
   CountryCode |-> <<"USA">>,
   src_row |-> 0]
  @@ ("Transport Mode" :> <<"nan">>)

CreateRefFlow ==
  /\ pc = "ref_flow"
  /\ refFlow_df' = ref_flow
  /\ pc' = "shared"
  /\ UNCHANGED <<nvars, csv, df_olca, log, df_params, written, error,
                 process_meta, validated, pending, processes>>

\* ------------------------------- lines 310-322: shared values, exchange dqi
SharedRow(r) ==
  ("ProcessCategory" :> Category) @@
  ("Context" :>
     <<"Technosphere flows / 48-49: Transportation and Warehousing">>) @@
  ("FlowType" :> <<"PRODUCT_FLOW">>) @@
  ("avoided_product" :> FALSE) @@
  ("location" :> <<"US">>) @@
  ("Year" :> YEAR) @@
  ("exchange_dqi" :> <<"dqi(meta.DQI.Flow)">>) @@ r

SharedValues ==
  /\ pc = "shared"
  /\ df_olca' = [i \in 1..Len(df_olca) |-> SharedRow(df_olca[i])]
  /\ pc' = "locations"
  /\ UNCHANGED <<nvars, csv, log, df_params, written, error, refFlow_df,
                 process_meta, validated, pending, processes>>

\* ------------------------------------------ lines 329-333: location merge
\* read_iso_3166() filtered to (ISO-2d, ISO-3d): one pair per country
IsoTables ==
  {<< <<"CA", "CAN">>, <<"US", "USA">> >>, << <<"CA", "CAN">> >>}

\* the merge as an inner join: a row of no match is dropped
MergeRow_inner(r, iso) ==
  LET hits == SelectSeq(iso, LAMBDA p : <<p[1]>> = r["location"])
  IN [j \in 1..Len(hits) |-> ("CountryCode" :> <<hits[j][2]>>) @@ r]

\* The rows a left merge on 'location' gives for one left row
MergeRow(r, iso) ==
  LET hits == SelectSeq(iso, LAMBDA p : <<p[1]>> = r["location"])
  IN IF hits = <<>>
     THEN <<("CountryCode" :> NaN) @@ r>>
     ELSE [j \in 1..Len(hits) |-> ("CountryCode" :> <<hits[j][2]>>) @@ r]

RECURSIVE LeftMerge(_, _)
LeftMerge(df, iso) ==
  IF df = <<>> THEN <<>>
  ELSE LeftMerge(SubSeq(df, 1, Len(df) - 1), iso) \o MergeRow(df[Len(df)], iso)

MergeLocations ==
  /\ pc = "locations"
  /\ \E iso \in IsoTables : df_olca' = LeftMerge(df_olca, iso)
  /\ pc' = "process_meta"
  /\ UNCHANGED <<nvars, csv, log, df_params, written, error, refFlow_df,
                 process_meta, validated, pending, processes>>

\* --------------------------------------- lines 343-358: supporting objects
\* A value of the metadata template: a string, or a nested structure
Text(s) == [isStr |-> TRUE, v |-> s]
Nested == [isStr |-> FALSE, v |-> <<"...">>]

\* transport_process_meta.yaml after the sources, actors, dq_entry and year
\* have been put in: with and without placeholders in its strings
ProcessMetas ==
  {[description |-> Text(<<"Transport of ", "[COMMODITY]", ", SCTG ", "[SCTG]">>),
    dq_entry |-> Text(<<"dqi(meta.DQI.Process)">>),
    sources |-> Nested],
   [description |-> Text(<<"Transport of a commodity">>),
    dq_entry |-> Text(<<"dqi(meta.DQI.Process)">>),
    sources |-> Nested]}

LoadProcessMeta ==
  /\ pc = "process_meta"
  /\ process_meta' \in ProcessMetas
  /\ pc' = "concat"
  /\ UNCHANGED <<nvars, csv, df_olca, log, df_params, written, error, refFlow_df,
                 validated, pending, processes>>

\* ------------------------------------------------- line 367: add ref flow
ConcatRefFlow ==
  /\ pc = "concat"
  /\ df_olca' = df_olca \o <<refFlow_df>>
  /\ pc' = "validate"
  /\ UNCHANGED <<nvars, csv, log, df_params, written, error, refFlow_df,
                 process_meta, validated, pending, processes>>

\* validation whose failure is not raised
Validate_ignored ==
  /\ pc = "validate"
  /\ \E ok \in BOOLEAN :
       /\ validated' = ok
       /\ pending' = Unique([i \in 1..Len(df_olca) |-> df_olca[i]["ProcessID"]])
       /\ pc' = "loop"
  /\ UNCHANGED <<nvars, csv, df_olca, log, df_params, written, error,
                 refFlow_df, process_meta, processes>>

\* ----------------------------------------------- lines 369-380: validation
\* validate_exchange_data is a library call: it returns or it raises
Validate ==
  /\ pc = "validate"
  /\ \E ok \in BOOLEAN :
       IF ok
       THEN /\ validated' = TRUE
            /\ pending' = Unique([i \in 1..Len(df_olca) |-> df_olca[i]["ProcessID"]])
            /\ pc' = "loop"
            /\ error' = error
       ELSE /\ error' = [kind |-> "ValidationError"]
            /\ pc' = "aborted"
            /\ UNCHANGED <<validated, pending>>
  /\ UNCHANGED <<nvars, csv, df_olca, log, df_params, written, refFlow_df,
                 process_meta, processes>>

\* the partition with the template row of the merged table left in
ExchangeSet_keepTemplate(df, template, pid) ==
  SelectSeq(df, LAMBDA r : r["ProcessID"] = pid \/ r["ProcessID"] = <<"nan">>)
    \o <<("ProcessID" :> pid) @@ template>>

\* ------------------------------------------ lines 380-424: the process loop
\* lines 383-390
ExchangeSet(df, template, pid) ==
  SelectSeq(df, LAMBDA r : r["ProcessID"] = pid)
    \o <<("ProcessID" :> pid) @@ template>>

\* lines 393-399 (a set with no donor row raises IndexError at .iloc[0])
HasDonor(set) == \E i \in 1..Len(set) : set[i]["FlowName"] # refFlowName

BindRefFlow(set) ==
  LET donors == SelectSeq(set, LAMBDA r : r["FlowName"] # refFlowName)
      source_row == donors[1]
  IN [i \in 1..Len(set) |->
        IF set[i]["FlowName"] = refFlowName
        THEN ("ProcessName" :> source_row["ProcessName"]) @@
             ("exchange_dqi" :> <<>>) @@ set[i]
        ELSE set[i]]

\* lines 406-411: str.replace raises TypeError when its replacement is no str
HasStr(meta) == \E k \in DOMAIN meta : meta[k].isStr

Substitute(meta, commodity, sctg) ==
  [k \in DOMAIN meta |->
     IF meta[k].isStr
     THEN Text(Replace(Replace(meta[k].v, <<"[COMMODITY]">>, commodity),
                       <<"[SCTG]">>, sctg))
     ELSE meta[k]]

\* The substitution writing into the template object itself
deepcopy_aliased(template, _process_meta) == _process_meta

\* _process_meta = copy.deepcopy(process_meta): the placeholders are replaced
\* in _process_meta, a separate object, and the template is what it was
deepcopy(template, _process_meta) == template

LoopSkip ==
  /\ pc = "loop"
  /\ pending # <<>>
  /\ Head(pending) = <<"nan">>
  /\ pending' = Tail(pending)
  /\ UNCHANGED <<nvars, pc, csv, df_olca, log, df_params, written, error,
                 refFlow_df, process_meta, validated, processes>>

LoopBody ==
  /\ pc = "loop"
  /\ pending # <<>>
  /\ Head(pending) # <<"nan">>
  /\ LET pid == Head(pending)
         set == ExchangeSet(df_olca, refFlow_df, pid)
     IN IF ~HasDonor(set)
        THEN /\ error' = [kind |-> "IndexError"]
             /\ pc' = "aborted"
             /\ UNCHANGED <<pending, processes, process_meta>>
        ELSE LET _df_olca == BindRefFlow(set)
                 commodity == _df_olca[1]["Commodity"]
                 sctg == _df_olca[1]["SCTG"]
             IN IF HasStr(process_meta) /\ (commodity = NaN \/ sctg = NaN)
                THEN /\ error' = [kind |-> "TypeError"]
                     /\ pc' = "aborted"
                     /\ UNCHANGED <<pending, processes, process_meta>>
                ELSE /\ processes' =
                          Append(processes,
                                 [pid |-> pid, exchanges |-> _df_olca,
                                  meta |-> Substitute(process_meta, commodity, sctg)])
                     /\ process_meta' =
                          deepcopy(process_meta,
                                   Substitute(process_meta, commodity, sctg))
                     /\ pending' = Tail(pending)
                     /\ UNCHANGED <<pc, error>>
  /\ UNCHANGED <<nvars, csv, df_olca, log, df_params, written, refFlow_df,
                 validated>>

LoopEnd ==
  /\ pc = "loop"
  /\ pending = <<>>
  /\ pc' = "write_objects"
  /\ UNCHANGED <<nvars, csv, df_olca, log, df_params, written, error, refFlow_df,
                 process_meta, validated, pending, processes>>

\* ------------------------------------------------ lines 427-437: emission
WriteObjects ==
  /\ pc = "write_objects"
  /\ written' = written \cup {"output/uslci-transport.zip"}
  /\ pc' = "extract"
  /\ UNCHANGED <<nvars, csv, df_olca, log, df_params, error, refFlow_df,
                 process_meta, validated, pending, processes>>

ExtractZip ==
  /\ pc = "extract"
  /\ written' = written \cup {"output/uslci-transport_v1.0"}
  /\ pc' = "done"
  /\ UNCHANGED <<nvars, csv, df_olca, log, df_params, error, refFlow_df,
                 process_meta, validated, pending, processes>>


\* ------------------------------------------------ Mode Normalizer on its own
\* Raw labels over a small alphabet; the action applies the normalizer twice.
LabelAlphabet == {"&", "amp;", "AMP;", SP, "x", "X"}

RECURSIVE LabelsOfLen(_)
LabelsOfLen(n) ==
  IF n = 0 THEN {<<>>}
  ELSE {Append(s, t) : s \in LabelsOfLen(n - 1), t \in LabelAlphabet}

RawLabels(maxLen) == UNION {LabelsOfLen(n) : n \in 0..maxLen}

\* the two runs share one set of variables: each leaves the other's alone
vars == <<pvars, nvars>>

NormIdle == raw = <<>> /\ once = <<>> /\ twice = <<>> /\ npc = "off"

PipelineIdle ==
  /\ pc = "off"
  /\ csv = <<>>
  /\ df_olca = <<>>
  /\ log = {}
  /\ df_params = <<>>
  /\ written = {}
  /\ error = NoError
  /\ refFlow_df = <<>>
  /\ process_meta = <<>>
  /\ validated = FALSE
  /\ pending = <<>>
  /\ processes = <<>>

NormInit ==
  /\ raw \in RawLabels(MaxLabelLen)
  /\ once = <<>>
  /\ twice = <<>>
  /\ npc = "raw"
  /\ PipelineIdle

NormalizeOnce ==
  /\ npc = "raw"
  /\ once' = _normalize_mode(raw)
  /\ npc' = "once"
  /\ UNCHANGED <<raw, twice, pvars>>

NormalizeTwice ==
  /\ npc = "once"
  /\ twice' = _normalize_mode(once)
  /\ npc' = "twice"
  /\ UNCHANGED <<raw, once, pvars>>

NormNext == NormalizeOnce \/ NormalizeTwice

SpecNorm == NormInit /\ [][NormNext]_vars

\* ------------------------------------------------------------ the pipeline
Init ==
  /\ pc = "read_csv"
  /\ csv \in CsvTables(MaxRows)
  /\ df_olca = <<>>
  /\ log = {}
  /\ df_params = <<>>
  /\ written = {}
  /\ error = NoError
  /\ refFlow_df = <<>>
  /\ process_meta = <<>>
  /\ validated = FALSE
  /\ pending = <<>>
  /\ processes = <<>>
  /\ NormIdle

Next ==
  \/ LoadCsv
  \/ SctgMapping
  \/ BuildParams
  \/ WriteParams
  \/ AssignStatic
  \/ MapFlows
  \/ AssignFormula
  \/ CreateRefFlow
  \/ SharedValues
  \/ MergeLocations
  \/ LoadProcessMeta
  \/ ConcatRefFlow
  \/ Validate
  \/ LoopSkip
  \/ LoopBody
  \/ LoopEnd
  \/ WriteObjects
  \/ ExtractZip

Spec == Init /\ [][Next]_vars

\* ------------------------------------------------------------------ claims
params_csv == "uslci_transport_params.csv"
Emitted == {"output/uslci-transport.zip", "output/uslci-transport_v1.0"}

\* The loop has visited every process identifier
LoopDone == pc \in {"write_objects", "extract", "done"}

\* Non-reference rows of one exchange set
Inputs(set) == {i \in 1..Len(set) : set[i]["reference"] = FALSE}

\* The keys of the normalized mode table of build_df_params
NormalizedModeKeys == DOMAIN norm_param_map(param_map)

\* csv rows whose normalized mode is no key of the normalized mode table
UnmappedRows ==
  {i \in 1..Len(csv) :
     _normalize_mode(csv[i].TransportMode) \notin NormalizedModeKeys}

\* C1: every exchange set handed to the builder belongs to a process
\* identifier other than 'nan', has exactly one row with reference = true and
\* only reference = false rows besides, and that row is an output of amount 1
\* in 'kg'.
C1_OneReferenceRow ==
  \A k \in 1..Len(processes) :
    LET set == processes[k].exchanges
        refs == {i \in 1..Len(set) : set[i]["reference"] = TRUE}
    IN /\ processes[k].pid # <<"nan">>
       /\ \A j \in 1..Len(processes) : processes[j].pid = processes[k].pid => j = k
       /\ Cardinality(refs) = 1
       /\ \A i \in 1..Len(set) :
            /\ set[i]["ProcessID"] = processes[k].pid
            /\ set[i]["reference"] \in BOOLEAN
            /\ i \in refs =>
                 /\ set[i]["IsInput"] = FALSE
                 /\ set[i]["amount"] = 1
                 /\ set[i]["unit"] = <<"kg">>

\* Two processes were handed to the builder, one of them with two inputs
\* or each with one.
C1_Witness ==
  /\ pc = "done"
  /\ \E k \in 1..Len(processes) : Len(processes[k].exchanges) >= 2
  /\ Len(csv) = 2

\* C2: once build_df_params has run on a table with a row of an unmapped
\* mode, the run is aborted with a KeyError that names the raw label and the
\* row of the first such row, and no output file has been written.
C2_UnmappedModeAborts ==
  (pc \notin {"read_csv", "sctg", "build_df_params"} /\ UnmappedRows # {}) =>
    /\ pc = "aborted"
    /\ error.kind = "KeyError"
    /\ error.row + 1 \in UnmappedRows
    /\ \A i \in UnmappedRows : error.row + 1 <= i
    /\ error.mode = csv[error.row + 1].TransportMode
    /\ written = {}

\* The second row of the table is the one of an unmapped mode.
C2_Witness ==
  /\ pc = "aborted"
  /\ error.kind = "KeyError"
  /\ error.row = 1
  /\ error.mode = <<"truck">>

\* C3 as stated: a run aborted on an unmapped mode or on a validation
\* failure has written no output artifact, the parameter table included,
\* and an artifact is written only after validation has passed.
C3_AllOrNothing ==
  /\ (pc = "aborted" /\ error.kind \in {"KeyError", "ValidationError"}) =>
       written = {}
  /\ written # {} => validated

\* C3 amended: the object graph and the unpacked archive are written only
\* after validation has passed; a run aborted on an unmapped mode has written
\* nothing; the parameter table is written right after build_df_params has
\* returned, so a run aborted at validation or later has written the
\* parameter table and nothing else.
C3_EmissionAfterValidation ==
  /\ written \cap Emitted # {} => validated /\ pc \in {"extract", "done"}
  /\ error.kind = "KeyError" => written = {}
  /\ (pc = "aborted" /\ error.kind # "KeyError") => written = {params_csv}
  /\ params_csv \in written =>
       UnmappedRows = {} /\ Len(df_params) = 3 * Len(csv)

\* A run that failed validation, with the parameter table already written.
C3_Witness ==
  /\ pc = "aborted"
  /\ error.kind = "ValidationError"
  /\ written = {params_csv}

\* C5: for every process P and every mode key M among P's input rows, the
\* parameter table holds, scoped to P's process name, M_dist with the row's
\* average distance, M_mass_frac with the row's mass fraction and M_kgkm with
\* no value and the formula "M_dist*M_mass_frac", each exactly once.
C5_ParamTriplePerProcessMode ==
  pc = "amount_formula" =>
    \A i \in 1..Len(df_olca) :
      LET r == df_olca[i]
          M == norm_param_map(param_map)[
                 _normalize_mode(r["Transport Mode"])]
          scoped(name) ==
            {j \in 1..Len(df_params) :
               /\ df_params[j].processName = r["ProcessName"]
               /\ df_params[j].name = name}
          only(name) == CHOOSE j \in scoped(name) : TRUE
      IN /\ Cardinality(scoped(M \o <<"_dist">>)) = 1
         /\ Cardinality(scoped(M \o <<"_mass_frac">>)) = 1
         /\ Cardinality(scoped(M \o <<"_kgkm">>)) = 1
         /\ df_params[only(M \o <<"_dist">>)].isInputParameter = "TRUE"
         /\ df_params[only(M \o <<"_dist">>)].value = csv[r["src_row"]].AvgDist
         /\ df_params[only(M \o <<"_mass_frac">>)].isInputParameter = "TRUE"
         /\ df_params[only(M \o <<"_mass_frac">>)].value =
              csv[r["src_row"]].MassFrac
         /\ df_params[only(M \o <<"_kgkm">>)].isInputParameter = "FALSE"
         /\ df_params[only(M \o <<"_kgkm">>)].value = NoValue
         /\ df_params[only(M \o <<"_kgkm">>)].formula =
              M \o <<"_dist", "*">> \o M \o <<"_mass_frac">>

\* C6: after assign_amount_formula every input row, the Parameter Builder
\* having emitted a triple for it, has the formula '<modeKey>_kgkm' of the
\* key of its normalized mode.
C6_FormulaAssigned ==
  pc = "ref_flow" =>
    \A i \in 1..Len(df_olca) :
      df_olca[i]["amountFormula"] =
        norm_param_map(param_map)[
          _normalize_mode(df_olca[i]["Transport Mode"])] \o <<"_kgkm">>

\* C7: no non-reference row goes on past the mapping step with an unset flow
\* name, flow identifier or default provider: a mode the mapping table lacks
\* aborts the run.
C7_UnmappedFlowAborts ==
  pc \in {"amount_formula", "ref_flow", "shared", "locations", "process_meta",
          "concat", "validate", "loop", "write_objects", "extract", "done"} =>
    \A i \in 1..Len(df_olca) :
      df_olca[i]["reference"] = FALSE =>
        /\ df_olca[i]["FlowName"] # NaN
        /\ df_olca[i]["FlowUUID"] # NaN
        /\ df_olca[i]["default_provider"] # NaN

\* C8: a commodity label without a taxonomy code never ends the run: a run
\* is aborted only on an unmapped mode or a validation failure.
C8_UnmappedClassificationNotFatal ==
  (pc = "aborted" /\ \E i \in 1..Len(df_olca) : df_olca[i]["SCTG"] = NaN) =>
    error.kind \in {"KeyError", "ValidationError"}

\* C9: when the loop has ended, every csv row is the source of exactly one
\* non-reference row over all exchange sets handed to the builder, that row
\* carries the csv row's commodity, mode and weighted distance, and the
\* number of non-reference rows handed over is the number of csv rows.
HandedInputs ==
  {<<k, j>> \in (1..Len(processes)) \X (1..(Len(csv) + 1)) :
     /\ j <= Len(processes[k].exchanges)
     /\ processes[k].exchanges[j]["reference"] = FALSE}

C9_NoRowDroppedOrDuplicated ==
  LoopDone =>
    /\ Cardinality(HandedInputs) = Len(csv)
    /\ \A k \in 1..Len(processes) :
         Len(processes[k].exchanges) <= Len(csv) + 1
    /\ \A i \in 1..Len(csv) :
         LET from == {h \in HandedInputs :
                        processes[h[1]].exchanges[h[2]]["src_row"] = i}
         IN /\ Cardinality(from) = 1
            /\ \A h \in from :
                 LET r == processes[h[1]].exchanges[h[2]]
                 IN /\ r["Commodity"] = csv[i].Commodity
                    /\ r["Transport Mode"] = csv[i].TransportMode
                    /\ r["amount"] = csv[i].WeightedDist

\* Two csv rows went to two processes and the run ended.
C9_Witness ==
  /\ pc = "done"
  /\ Len(csv) = 2
  /\ Len(processes) = 2

\* C10: the row's lookup finds no '_kgkm' parameter for its process name and
\* the mode key of _norm_mode
Miss(r) ==
  LET token == MapGet(mode_to_token(param_map),
                      _norm_mode(r["Transport Mode"]))
  IN ~ \E j \in 1..Len(df_params) :
         /\ df_params[j].processName = r["ProcessName"]
         /\ df_params[j].name = token \o <<"_kgkm">>

\* C10: the step of assign_amount_formula keeps the number and order of the
\* rows and every column but amountFormula, leaves the formula of a row that
\* misses the lookup unset, raises nothing and goes on to the next statement.
C10_LookupMissFrame ==
  [][pc = "amount_formula" =>
       /\ pc' = "ref_flow"
       /\ error' = NoError
       /\ Len(df_olca') = Len(df_olca)
       /\ \A i \in 1..Len(df_olca) :
            /\ DOMAIN df_olca'[i] = DOMAIN df_olca[i]
            /\ \A c \in DOMAIN df_olca[i] \ {"amountFormula"} :
                 df_olca'[i][c] = df_olca[i][c]
            /\ Miss(df_olca[i]) => df_olca'[i]["amountFormula"] = NaN
            /\ ~Miss(df_olca[i]) => df_olca'[i]["amountFormula"] # NaN]_vars

\* A run that ended with an input row whose formula is unset and whose
\* amount is the csv row's weighted distance, next to a row with a formula.
C10_Witness ==
  /\ pc = "done"
  /\ \E k \in 1..Len(processes) :
       \E i, j \in 1..Len(processes[k].exchanges) :
         LET r == processes[k].exchanges[i]
             q == processes[k].exchanges[j]
         IN /\ r["reference"] = FALSE
            /\ r["amountFormula"] = NaN
            /\ r["amount"] = csv[r["src_row"]].WeightedDist
            /\ q["reference"] = FALSE
            /\ q["amountFormula"] = <<"rail", "_kgkm">>

\* C11: the table passed to validate_exchange_data (df_olca when the call is
\* about to run, and unchanged afterwards) has no row of a null or 'nan'
\* process identifier, every process identifier in it owns exactly one
\* reference row, and every row handed to the builder is a row of it.
C11_ValidatedSetIsWhatIsEmitted ==
  /\ pc = "validate" =>
       \A i \in 1..Len(df_olca) :
         /\ df_olca[i]["ProcessID"] \notin {NaN, <<"nan">>}
         /\ Cardinality({j \in 1..Len(df_olca) :
                           /\ df_olca[j]["ProcessID"] = df_olca[i]["ProcessID"]
                           /\ df_olca[j]["reference"] = TRUE}) = 1
  /\ validated =>
       \A k \in 1..Len(processes) :
         \A j \in 1..Len(processes[k].exchanges) :
           \E i \in 1..Len(df_olca) : df_olca[i] = processes[k].exchanges[j]

\* C12: in every exchange set handed to the builder the reference row is the
\* template with the process identifier of that set, and with the process
\* name and the data-quality indicator of a non-reference row of the set.
C12_ReferenceRowBoundToProcess ==
  \A k \in 1..Len(processes) :
    LET set == processes[k].exchanges
    IN \A i \in 1..Len(set) :
         set[i]["reference"] = TRUE =>
           /\ set[i]["ProcessID"] = processes[k].pid
           /\ \A c \in DOMAIN refFlow_df \ {"ProcessID", "ProcessName", "exchange_dqi"} :
                set[i][c] = refFlow_df[c]
           /\ \E j \in Inputs(set) :
                /\ set[i]["ProcessName"] = set[j]["ProcessName"]
                /\ set[i]["exchange_dqi"] = set[j]["exchange_dqi"]

\* C13: a step of the loop changes neither the process-metadata template nor
\* the reference-flow template, whose row keeps the process identifier 'nan',
\* and the strings of the metadata emitted for a process are the template's
\* strings with the placeholders replaced by the commodity and the code of a
\* row of that process.
C13_TemplatesUntouched ==
  /\ [](\A k \in 1..Len(processes) :
          \E j \in Inputs(processes[k].exchanges) :
            LET row == processes[k].exchanges[j]
                own == Range(row["Commodity"]) \cup Range(row["SCTG"])
            IN \A f \in DOMAIN processes[k].meta :
                 processes[k].meta[f].isStr =>
                   /\ "[COMMODITY]" \notin Range(processes[k].meta[f].v)
                   /\ "[SCTG]" \notin Range(processes[k].meta[f].v)
                   /\ Range(processes[k].meta[f].v) \subseteq
                        Range(process_meta[f].v) \cup own)
  /\ [][pc = "loop" =>
         /\ process_meta' = process_meta
         /\ refFlow_df' = refFlow_df
         /\ refFlow_df["ProcessID"] = <<"nan">>]_vars

C13_Witness ==
  /\ pc = "done"
  /\ Len(processes) = 2
  /\ processes[1].meta # processes[2].meta
  /\ "[COMMODITY]" \in Range(process_meta["description"].v)
  /\ "[SCTG]" \in Range(process_meta["description"].v)

\* C14: when the formulas are about to be assigned, every row's raw mode label
\* (build_df_params has accepted each of them) resolves through _norm_mode and
\* mode_to_token to the mode key that _normalize_mode and norm_param_map gave
\* the builder.
C14_NormalizersAgree ==
  pc = "amount_formula" =>
    \A i \in 1..Len(df_olca) :
      LET label == df_olca[i]["Transport Mode"]
      IN /\ _normalize_mode(label) \in NormalizedModeKeys
         /\ MapGet(mode_to_token(param_map), _norm_mode(label)) =
              norm_param_map(param_map)[_normalize_mode(label)]

\* C15: once the driver has named the processes, every row's ProcessName is
\* the process name under which build_df_params scoped that row's parameters,
\* and its ProcessID is the identifier made from that name.
C15_ProcessNamesAgree ==
  pc = "flow_mapping" =>
    \A i \in 1..Len(df_olca) :
      /\ df_olca[i]["ProcessName"] = _process_name(df_olca[i]["Commodity"])
      /\ df_olca[i]["ProcessName"] = df_params[3 * df_olca[i]["src_row"]].processName
      /\ df_olca[i]["ProcessID"] = make_uuid(_process_name(df_olca[i]["Commodity"]))

\* C4: normalizing a raw mode label a second time changes nothing:
\* _normalize_mode(_normalize_mode(s)) = _normalize_mode(s) for every label.
C4_NormalizeIdempotent == npc = "twice" => twice = once

====
